---- MODULE Spec2Model ----
(***************************************************************************)
(* Model of the /parse handler of app/main.py (parse_query): one request   *)
(* is taken through the handler's five steps and the payload assembly.     *)
(* Text is a sequence of one-character strings, so that the substring      *)
(* tests, split, replace, strip and isdigit calls of the code are computed *)
(* on characters as Python computes them.                                  *)
(***************************************************************************)
EXTENDS Integers, Sequences, FiniteSets, TLC

VARIABLES
    request,       \* the JSON body of the POST: whether it has "query", and its text
    ents,          \* doc.ents: the entity spans the recognizer gives for the text
    now,           \* the clock: datetime.now()
    skip_tokens,   \* whether the date library skips the words it does not know
    pc,            \* the handler's position
    outcome,       \* "running", "ok" (a response was returned) or "error" (it raised)
    user_text, lowered_text,
    structured,    \* the structured result record
    date_res,      \* what step 2 did, with its local values
    ent_idx,       \* the loop position of step 3
    payload        \* immich_body after filtering; <<>> before step 5

vars == <<request, ents, now, skip_tokens, pc, outcome, user_text, lowered_text,
          structured, date_res, ent_idx, payload>>

----------------------------------------------------------------------------
(* Python's None, kept apart from every string (a string is a sequence of  *)
(* one-character strings, the empty string is <<>>).                        *)
None == <<"None">>

----------------------------------------------------------------------------
(* str primitives                                                           *)

Whitespace == {" ", "\t", "\n"}
Digits == <<"0", "1", "2", "3", "4", "5", "6", "7", "8", "9">>
UpperAlpha == <<"A", "B", "C", "D", "E", "F", "G", "H", "I", "J", "K", "L", "M",
                "N", "O", "P", "Q", "R", "S", "T", "U", "V", "W", "X", "Y", "Z">>
LowerAlpha == <<"a", "b", "c", "d", "e", "f", "g", "h", "i", "j", "k", "l", "m",
                "n", "o", "p", "q", "r", "s", "t", "u", "v", "w", "x", "y", "z">>

IsDigitChar(c) == \E i \in 1..10 : Digits[i] = c
DigitVal(c) == (CHOOSE i \in 1..10 : Digits[i] = c) - 1
IsWordChar(c) ==
    \/ IsDigitChar(c)
    \/ c = "_"
    \/ \E i \in 1..26 : UpperAlpha[i] = c \/ LowerAlpha[i] = c

(* str.lower *)
LowerChar(c) ==
    IF \E i \in 1..26 : UpperAlpha[i] = c
    THEN LowerAlpha[CHOOSE i \in 1..26 : UpperAlpha[i] = c]
    ELSE c
Lower(s) == [i \in 1..Len(s) |-> LowerChar(s[i])]

(* p in s *)
MatchAt(s, p, i) == i + Len(p) - 1 <= Len(s) /\ SubSeq(s, i, i + Len(p) - 1) = p
Contains(s, p) == \E i \in 1..(Len(s) - Len(p) + 1) : MatchAt(s, p, i)

(* s.find(p), 1-based; 0 where Python gives -1 *)
Find(s, p) ==
    IF Contains(s, p)
    THEN CHOOSE i \in 1..(Len(s) - Len(p) + 1) :
            MatchAt(s, p, i) /\ \A j \in 1..(i - 1) : ~MatchAt(s, p, j)
    ELSE 0

(* s.replace(old, new): left to right, non-overlapping *)
RECURSIVE Replace(_, _, _)
Replace(s, old, new) ==
    IF Len(s) < Len(old) THEN s
    ELSE IF MatchAt(s, old, 1)
         THEN new \o Replace(SubSeq(s, Len(old) + 1, Len(s)), old, new)
         ELSE <<Head(s)>> \o Replace(Tail(s), old, new)

(* s.split(sep, 1) *)
SplitOnce(s, sep) ==
    LET i == Find(s, sep) IN
    IF i = 0 THEN <<s>>
    ELSE <<SubSeq(s, 1, i - 1), SubSeq(s, i + Len(sep), Len(s))>>

(* s.split(sep) with an explicit separator: empty pieces are kept *)
RECURSIVE SplitSep(_, _)
SplitSep(s, sep) ==
    LET i == Find(s, sep) IN
    IF i = 0 THEN <<s>>
    ELSE <<SubSeq(s, 1, i - 1)>> \o SplitSep(SubSeq(s, i + Len(sep), Len(s)), sep)

(* s.split(): runs of whitespace separate, no empty tokens *)
RECURSIVE SplitWsFrom(_, _)
SplitWsFrom(s, cur) ==
    IF s = <<>> THEN (IF cur = <<>> THEN <<>> ELSE <<cur>>)
    ELSE IF Head(s) \in Whitespace
         THEN (IF cur = <<>> THEN <<>> ELSE <<cur>>) \o SplitWsFrom(Tail(s), <<>>)
         ELSE SplitWsFrom(Tail(s), Append(cur, Head(s)))
SplitWs(s) == SplitWsFrom(s, <<>>)

(* s.strip() *)
RECURSIVE LStrip(_)
LStrip(s) == IF s # <<>> /\ Head(s) \in Whitespace THEN LStrip(Tail(s)) ELSE s
RECURSIVE RStrip(_)
RStrip(s) ==
    IF s # <<>> /\ s[Len(s)] \in Whitespace THEN RStrip(SubSeq(s, 1, Len(s) - 1)) ELSE s
Strip(s) == RStrip(LStrip(s))

(* " ".join(tokens) *)
RECURSIVE JoinSp(_)
JoinSp(tokens) ==
    IF tokens = <<>> THEN <<>>
    ELSE IF Len(tokens) = 1 THEN tokens[1]
    ELSE tokens[1] \o <<" ">> \o JoinSp(Tail(tokens))

(* token.isdigit() *)
IsDigit(tok) == tok # <<>> /\ \A i \in 1..Len(tok) : IsDigitChar(tok[i])

(* int(token) for a token of decimal digits *)
RECURSIVE ToInt(_)
ToInt(tok) ==
    IF tok = <<>> THEN 0
    ELSE 10 * ToInt(SubSeq(tok, 1, Len(tok) - 1)) + DigitVal(tok[Len(tok)])

(* the decimal digits of n, left-padded with zeros to width w *)
RECURSIVE DecStr(_)
DecStr(n) == IF n < 10 THEN <<Digits[n + 1]>> ELSE DecStr(n \div 10) \o <<Digits[(n % 10) + 1]>>
RECURSIVE ZeroPad(_, _)
ZeroPad(s, w) == IF Len(s) >= w THEN s ELSE ZeroPad(<<"0">> \o s, w)

----------------------------------------------------------------------------
(* datetime and calendar                                                    *)

(* No datetime: the falsy result of dateparser.parse (year 0 is no year of  *)
(* a Python datetime, whose years are 1..9999).                             *)
NoDate == [year |-> 0, month |-> 0, day |-> 0, hour |-> 0, minute |-> 0, second |-> 0]

IsLeap(y) == (y % 4 = 0) /\ ((y % 100 # 0) \/ (y % 400 = 0))

(* mutant: February has 28 days in every year *)
monthrange_noleap(y, m) ==
    IF m = 2 THEN 28
    ELSE IF m \in {4, 6, 9, 11} THEN 30 ELSE 31

(* calendar.monthrange(y, m)[1] *)
monthrange(y, m) ==
    IF m = 2 THEN (IF IsLeap(y) THEN 29 ELSE 28)
    ELSE IF m \in {4, 6, 9, 11} THEN 30 ELSE 31

Pad2(n) == ZeroPad(DecStr(n), 2)

(* datetime.isoformat() of a naive datetime without microseconds *)
isoformat(dt) ==
    ZeroPad(DecStr(dt.year), 4) \o <<"-">> \o Pad2(dt.month) \o <<"-">> \o Pad2(dt.day)
    \o <<"T">> \o Pad2(dt.hour) \o <<":">> \o Pad2(dt.minute) \o <<":">> \o Pad2(dt.second)

(* datetime(year, month, day).strftime("%Y-%m-%d").  Whether %Y pads a year *)
(* below 1000 to four digits depends on the platform's C library: padded    *)
(* says which of the two the build does.                                    *)
strftime_Ymd(year, month, day, padded) ==
    (IF padded THEN ZeroPad(DecStr(year), 4) ELSE DecStr(year))
    \o <<"-">> \o Pad2(month) \o <<"-">> \o Pad2(day)

----------------------------------------------------------------------------
(* dateparser.parse(phrase, settings={"PREFER_DAY_OF_MONTH": prefer_day}):  *)
(* the library is outside the repository.  A phrase made only of a month    *)
(* name, a day number and a four-digit year (each at most once, in any      *)
(* order) resolves to that date, the missing year and month taken from the  *)
(* clock and the missing day from prefer_day.  For a phrase with any other  *)
(* token the library either gives up (None) or skips the token: which of    *)
(* the two it does is skip_tokens, the same for every call.                 *)

MonthNames ==
    <<<<"j", "a", "n", "u", "a", "r", "y">>,
      <<"f", "e", "b", "r", "u", "a", "r", "y">>,
      <<"m", "a", "r", "c", "h">>,
      <<"a", "p", "r", "i", "l">>,
      <<"m", "a", "y">>,
      <<"j", "u", "n", "e">>,
      <<"j", "u", "l", "y">>,
      <<"a", "u", "g", "u", "s", "t">>,
      <<"s", "e", "p", "t", "e", "m", "b", "e", "r">>,
      <<"o", "c", "t", "o", "b", "e", "r">>,
      <<"n", "o", "v", "e", "m", "b", "e", "r">>,
      <<"d", "e", "c", "e", "m", "b", "e", "r">>>>

MonthOf(tok) ==
    IF \E i \in 1..12 : tok = MonthNames[i] \/ tok = SubSeq(MonthNames[i], 1, 3)
    THEN CHOOSE i \in 1..12 : tok = MonthNames[i] \/ tok = SubSeq(MonthNames[i], 1, 3)
    ELSE 0

IsMonthTok(tok) == MonthOf(tok) # 0
IsYearTok(tok) == IsDigit(tok) /\ Len(tok) = 4 /\ ToInt(tok) >= 1
IsDayTok(tok) == IsDigit(tok) /\ Len(tok) <= 2 /\ ToInt(tok) \in 1..31
IsDateTok(tok) == IsMonthTok(tok) \/ IsYearTok(tok) \/ IsDayTok(tok)

DateFromTokens(toks, prefer_day) ==
    LET ms == SelectSeq(toks, IsMonthTok)
        ys == SelectSeq(toks, IsYearTok)
        ds == SelectSeq(toks, IsDayTok)
    IN  IF Len(ms) > 1 \/ Len(ys) > 1 \/ Len(ds) > 1 \/ (ms = <<>> /\ ys = <<>>)
        THEN NoDate
        ELSE LET y == IF ys = <<>> THEN now.year ELSE ToInt(ys[1])
                 m == IF ms = <<>> THEN now.month ELSE MonthOf(ms[1])
                 d == IF ds # <<>> THEN ToInt(ds[1])
                      ELSE IF prefer_day = "last" THEN monthrange(y, m) ELSE 1
             IN  IF d > monthrange(y, m) THEN NoDate
                 ELSE [year |-> y, month |-> m, day |-> d,
                       hour |-> 0, minute |-> 0, second |-> 0]

dateparser_parse(phrase, prefer_day) ==
    LET toks == SplitWs(Lower(phrase))
        known == SelectSeq(toks, IsDateTok)
    IN  IF known = toks THEN DateFromTokens(toks, prefer_day)
        ELSE IF skip_tokens THEN DateFromTokens(known, prefer_day)
        ELSE NoDate

----------------------------------------------------------------------------
(* parse_date_str (lines 71-83): the ISO timestamp, or None                 *)

parse_date_str(date_str, prefer_day) ==
    LET toks == SplitWs(date_str)
        with_year == IF ~\E i \in 1..Len(toks) : IsDigit(toks[i])
                     THEN date_str \o <<" ">> \o DecStr(now.year)
                     ELSE date_str
        dt == dateparser_parse(with_year, prefer_day)
    IN  IF dt = NoDate THEN None
        ELSE IF prefer_day = "first"
             THEN isoformat([dt EXCEPT !.hour = 0, !.minute = 0, !.second = 0])
             ELSE isoformat([dt EXCEPT !.hour = 23, !.minute = 59, !.second = 59])

(* filter_date_tokens (lines 89-94) *)
extraneous ==
    { <<"t","a","k","e","n">>, <<"w","i","t","h">>, <<"i","p","h","o","n","e">>,
      <<"p","i","x","e","l">>, <<"n","i","k","o","n">>, <<"c","a","n","o","n">>,
      <<"s","o","n","y">>, <<"b","y">>, <<"o","n">>, <<",">> }
NotExtraneous(token) == token \notin extraneous
filter_date_tokens(date_str) == JoinSp(SelectSeq(SplitWs(date_str), NotExtraneous))

----------------------------------------------------------------------------
(* Step 1 (lines 99-104): boolean flags by keyword                          *)

flag_isArchived(text) == Contains(text, <<"a", "r", "c", "h", "i", "v", "e", "d">>)
(* mutant: only the American spelling is looked for *)
flag_isFavorite_us(text) == Contains(text, <<"f", "a", "v", "o", "r", "i", "t", "e">>)
flag_isFavorite(text) == Contains(text, <<"f", "a", "v", "o", "r", "i", "t", "e">>) \/ Contains(text, <<"f", "a", "v", "o", "u", "r", "i", "t", "e">>)
flag_isMotion(text) == Contains(text, <<"m", "o", "t", "i", "o", "n">>)

----------------------------------------------------------------------------
(* Step 2 (lines 111-152): date range                                       *)

(* the condition of lines 111-112 *)
explicit_trigger(text) ==
    \/ /\ Contains(text, <<" ", "f", "r", "o", "m", " ">>)
       /\ Contains(text, <<" ", "t", "o", " ">>) \/ Contains(text, <<" ", "t", "h", "r", "o", "u", "g", "h", " ">>)
    \/ /\ Contains(text, <<" ", "b", "e", "t", "w", "e", "e", "n", " ">>)
       /\ Contains(text, <<" ", "a", "n", "d", " ">>)

(* what step 2 leaves behind: the strategy taken, whether it raised, the    *)
(* two fields and the handler's local values                                *)
DateResult(strategy, error, takenAfter, takenBefore, date1_str, date2_str, candidate, dt_temp, year) ==
    [strategy |-> strategy, error |-> error,
     takenAfter |-> takenAfter, takenBefore |-> takenBefore,
     date1_str |-> date1_str, date2_str |-> date2_str, candidate |-> candidate,
     dt_temp |-> dt_temp, year |-> year]

(* str.split("T")[0] of an ISO timestamp *)
DateOnly(iso) == SplitOnce(iso, <<"T">>)[1]

(* lines 113-142; the result of .split on None is an AttributeError *)
explicit_range(text) ==
    LET normalized_text ==
            Replace(Replace(Replace(text, <<" ", "t", "h", "r", "o", "u", "g", "h", " ">>, <<" ", "t", "o", " ">>),
                            <<" ", "b", "e", "t", "w", "e", "e", "n", " ">>, <<" ", "f", "r", "o", "m", " ">>), <<" ", "a", "n", "d", " ">>, <<" ", "t", "o", " ">>)
        after_part == SplitOnce(normalized_text, <<" ", "f", "r", "o", "m", " ">>)[2]
        parts == SplitOnce(after_part, <<" ", "t", "o", " ">>)
    IN  IF Len(parts) # 2
        THEN DateResult("explicit", FALSE, None, None, None, None, None, NoDate, None)
        ELSE
        LET date1_raw == Strip(parts[1])
            date2_str == filter_date_tokens(Strip(parts[2]))
            tokens_date2 == SplitWs(date2_str)
            candidate == IF Len(tokens_date2) < 2 THEN date2_str
                         ELSE JoinSp(SubSeq(tokens_date2, 1, 2))
            dt_temp == dateparser_parse(candidate, "first")
            year == IF dt_temp # NoDate THEN dt_temp.year ELSE now.year
            date1_str == IF ~\E i \in 1..Len(date1_raw) : IsDigitChar(date1_raw[i])
                         THEN date1_raw \o <<" ">> \o DecStr(year)
                         ELSE date1_raw
            r1 == parse_date_str(date1_str, "first")
            r2 == parse_date_str(date2_str, "last")
            last_day == monthrange(dt_temp.year, dt_temp.month)
            dt2_obj == [dt_temp EXCEPT !.day = last_day]
        IN  IF r1 = None
            THEN DateResult("explicit", TRUE, None, None,
                            date1_str, date2_str, candidate, dt_temp, None)
            ELSE IF dt_temp # NoDate
            THEN DateResult("explicit", FALSE, DateOnly(r1), DateOnly(isoformat(dt2_obj)),
                            date1_str, date2_str, candidate, dt_temp, None)
            ELSE IF r2 = None
            THEN DateResult("explicit", TRUE, None, None,
                            date1_str, date2_str, candidate, dt_temp, None)
            ELSE DateResult("explicit", FALSE, DateOnly(r1), DateOnly(r2),
                            date1_str, date2_str, candidate, dt_temp, None)

(* the regular expression of lines 145-146 on a string s:                   *)
(*   (?:(?:\b(?:taken|created)\b.*?\bin\s+)|(?:\bin\s+))(?P<year>\d{4})\b   *)
BoundaryBefore(s, p) == p = 1 \/ ~IsWordChar(s[p - 1])
BoundaryAfter(s, p) == p = Len(s) \/ ~IsWordChar(s[p + 1])

RECURSIVE WsRunEnd(_, _)
WsRunEnd(s, i) == IF i <= Len(s) /\ s[i] \in Whitespace THEN WsRunEnd(s, i + 1) ELSE i

(* \bin\s+(\d{4})\b tried at position p: where the year starts, or 0 *)
InYearAt(s, p) ==
    IF p + 1 <= Len(s) /\ BoundaryBefore(s, p) /\ s[p] = "i" /\ s[p + 1] = "n"
    THEN LET q == WsRunEnd(s, p + 2)
         IN  IF /\ q > p + 2
                /\ q + 3 <= Len(s)
                /\ IsDigit(SubSeq(s, q, q + 3))
                /\ BoundaryAfter(s, q + 3)
             THEN q ELSE 0
    ELSE 0

(* \b(?:taken|created)\b.*?\bin\s+(\d{4})\b tried at position p: the lazy   *)
(* .*? stops at the first later place, on the same line, where the rest     *)
(* matches                                                                  *)
TakenInYearAt(s, p) ==
    LET kws == { kw \in {<<"t", "a", "k", "e", "n">>, <<"c", "r", "e", "a", "t", "e", "d">>} :
                    /\ BoundaryBefore(s, p)
                    /\ MatchAt(s, kw, p)
                    /\ BoundaryAfter(s, p + Len(kw) - 1) }
        js == { j \in 1..Len(s) :
                    \E kw \in kws :
                        /\ j >= p + Len(kw)
                        /\ \A k \in (p + Len(kw))..(j - 1) : s[k] # "\n"
                        /\ InYearAt(s, j) # 0 }
    IN  IF js = {} THEN 0
        ELSE InYearAt(s, CHOOSE j \in js : \A k \in js : j <= k)

(* re.search: the leftmost position where an alternative matches, the first *)
(* alternative tried first; the four digits of group "year", or None        *)
YearAt(s, p) == IF TakenInYearAt(s, p) # 0 THEN TakenInYearAt(s, p) ELSE InYearAt(s, p)
re_search_year(s) ==
    LET ps == { p \in 1..Len(s) : YearAt(s, p) # 0 }
    IN  IF ps = {} THEN None
        ELSE LET q == YearAt(s, CHOOSE p \in ps : \A k \in ps : p <= k)
             IN  SubSeq(s, q, q + 3)

(* mutant: the two ends of the year are exchanged *)
bare_year_swapped(text) ==
    LET digits == re_search_year(text)
        year == ToInt(digits)
    IN  IF year < 1
        THEN {DateResult("bare", TRUE, None, None, None, None, None, NoDate, digits)}
        ELSE { DateResult("bare", FALSE, strftime_Ymd(year, 12, 31, padded),
                          strftime_Ymd(year, 1, 1, padded),
                          None, None, None, NoDate, digits) :
               padded \in BOOLEAN }

(* lines 147-152; datetime(0, 1, 1) is a ValueError (MINYEAR is 1) *)
bare_year(text) ==
    LET digits == re_search_year(text)
        year == ToInt(digits)
    IN  IF year < 1
        THEN {DateResult("bare", TRUE, None, None, None, None, None, NoDate, digits)}
        ELSE { DateResult("bare", FALSE, strftime_Ymd(year, 1, 1, padded),
                          strftime_Ymd(year, 12, 31, padded),
                          None, None, None, NoDate, digits) :
               padded \in BOOLEAN }

(* mutant: the bare-year pattern is tried whenever the explicit range set  *)
(* no date (an `if` in place of the `elif`)                                 *)
date_step_fallthrough(text) ==
    IF explicit_trigger(text)
          /\ (explicit_range(text).error \/ explicit_range(text).takenAfter # None)
    THEN {explicit_range(text)}
    ELSE IF re_search_year(text) # None THEN bare_year(text)
    ELSE {DateResult("none", FALSE, None, None, None, None, None, NoDate, None)}

(* the if / elif of lines 111 and 145 *)
date_step(text) ==
    IF explicit_trigger(text) THEN {explicit_range(text)}
    ELSE IF re_search_year(text) # None THEN bare_year(text)
    ELSE {DateResult("none", FALSE, None, None, None, None, None, NoDate, None)}

----------------------------------------------------------------------------
(* Step 3 (lines 157-206): location, one entity span at a time              *)

(* the gazetteers of lines 158-159 (geonamescache), lower-cased names: the  *)
(* entries the entity spans of the model can hit                            *)
known_states ==
    { <<"t", "e", "x", "a", "s">>, <<"c", "a", "l", "i", "f", "o", "r", "n", "i", "a">>, <<"g", "e", "o", "r", "g", "i", "a">>, <<"n", "e", "w", " ", "y", "o", "r", "k">> }
known_countries ==
    { <<"f", "r", "a", "n", "c", "e">>, <<"c", "a", "n", "a", "d", "a">>, <<"g", "e", "o", "r", "g", "i", "a">>, <<"u", "n", "i", "t", "e", "d", " ", "s", "t", "a", "t", "e", "s">> }

PlaceLabels == {"GPE", "LOC"}

(* the last of the selected parts, or None: a loop variable that every     *)
(* matching part overwrites                                                 *)
LastOf(sel) == IF sel = <<>> THEN None ELSE sel[Len(sel)]

IsState(part) == Lower(part) \in known_states
IsCountry(part) == Lower(part) \notin known_states /\ Lower(part) \in known_countries
IsOther(part) == Lower(part) \notin known_states /\ Lower(part) \notin known_countries

(* `if x` on a value that is None or a string *)
Truthy(v) == v # None /\ v # <<>>

(* [p.strip() for p in ...] of line 167 *)
StripAll(parts) == [i \in 1..Len(parts) |-> Strip(parts[i])]

(* mutant: the fields are written without the `is None` tests *)
comma_span_overwrite(st, loc_text) ==
    LET parts == StripAll(SplitSep(loc_text, <<",">>))
        others == SelectSeq(parts, IsOther)
        city_part == IF others = <<>> THEN None ELSE others[1]
        state_part == LastOf(SelectSeq(parts, IsState))
        country_part == LastOf(SelectSeq(parts, IsCountry))
        st1 == IF Truthy(city_part) THEN [st EXCEPT !.city = city_part] ELSE st
        st2 == IF Truthy(state_part) THEN [st1 EXCEPT !.state = state_part] ELSE st1
    IN  IF Truthy(country_part) THEN [st2 EXCEPT !.country = country_part] ELSE st2

(* lines 167-185: a span with a comma *)
comma_span(st, loc_text) ==
    LET parts == StripAll(SplitSep(loc_text, <<",">>))
        others == SelectSeq(parts, IsOther)
        city_part == IF others = <<>> THEN None ELSE others[1]
        state_part == LastOf(SelectSeq(parts, IsState))
        country_part == LastOf(SelectSeq(parts, IsCountry))
        st1 == IF Truthy(city_part) /\ st.city = None
               THEN [st EXCEPT !.city = city_part] ELSE st
        st2 == IF Truthy(state_part) /\ st1.state = None
               THEN [st1 EXCEPT !.state = state_part] ELSE st1
    IN  IF Truthy(country_part) /\ st2.country = None
        THEN [st2 EXCEPT !.country = country_part] ELSE st2

(* lines 188-206: a span without a comma *)
RECURSIVE FirstCountry(_, _)
FirstCountry(country, parts) ==
    IF parts = <<>> THEN country
    ELSE FirstCountry(IF IsCountry(Head(parts)) /\ country = None
                      THEN Head(parts) ELSE country, Tail(parts))
plain_span(st, loc_text) ==
    LET parts == SplitWs(loc_text)
        city_parts == SelectSeq(parts, IsOther)
        state_candidate == LastOf(SelectSeq(parts, IsState))
        st0 == [st EXCEPT !.country = FirstCountry(st.country, parts)]
        st1 == IF city_parts # <<>> /\ st0.city = None
               THEN [st0 EXCEPT !.city = JoinSp(city_parts)] ELSE st0
        st2 == IF Truthy(state_candidate) /\ st1.state = None
               THEN [st1 EXCEPT !.state = state_candidate] ELSE st1
    IN  IF Truthy(state_candidate) /\ st2.country = None
        THEN [st2 EXCEPT !.country = <<"U", "n", "i", "t", "e", "d", " ", "S", "t", "a", "t", "e", "s">>] ELSE st2

(* the body of the loop of line 162 for one span *)
process_ent(st, ent) ==
    IF ent.label \in PlaceLabels
    THEN IF Contains(ent.text, <<",">>) THEN comma_span(st, ent.text)
         ELSE plain_span(st, ent.text)
    ELSE st

----------------------------------------------------------------------------
(* Step 4 (lines 211-244): camera make and model                            *)

(* lines 213-219, 223-228, 232-237: the model name for a phone keyword *)
phone_model(text, keyword, brand) ==
    LET idx == Find(text, keyword)
        tail == SplitWs(SubSeq(text, idx, Len(text)))
    IN  IF Len(tail) > 1 /\ IsDigit(tail[2])
        THEN brand \o <<" ">> \o tail[2]
        ELSE brand

phone_check(st, text, keyword, make, brand) ==
    IF Contains(text, keyword)
    THEN [st EXCEPT !.make = make, !.model = phone_model(text, keyword, brand)]
    ELSE st

camera_check(st, text, keyword, make) ==
    IF Contains(text, keyword) THEN [st EXCEPT !.make = make] ELSE st

(* mutant: the checks form one if / elif chain, the first keyword wins *)
device_step_elif(st, text) ==
    IF Contains(text, <<"i", "p", "h", "o", "n", "e">>) THEN phone_check(st, text, <<"i", "p", "h", "o", "n", "e">>, <<"A", "p", "p", "l", "e">>, <<"i", "P", "h", "o", "n", "e">>)
    ELSE IF Contains(text, <<"p", "i", "x", "e", "l">>) THEN phone_check(st, text, <<"p", "i", "x", "e", "l">>, <<"G", "o", "o", "g", "l", "e">>, <<"P", "i", "x", "e", "l">>)
    ELSE IF Contains(text, <<"g", "a", "l", "a", "x", "y">>) THEN phone_check(st, text, <<"g", "a", "l", "a", "x", "y">>, <<"S", "a", "m", "s", "u", "n", "g">>, <<"G", "a", "l", "a", "x", "y">>)
    ELSE IF Contains(text, <<"n", "i", "k", "o", "n">>) THEN camera_check(st, text, <<"n", "i", "k", "o", "n">>, <<"N", "i", "k", "o", "n">>)
    ELSE IF Contains(text, <<"c", "a", "n", "o", "n">>) THEN camera_check(st, text, <<"c", "a", "n", "o", "n">>, <<"C", "a", "n", "o", "n">>)
    ELSE camera_check(st, text, <<"s", "o", "n", "y">>, <<"S", "o", "n", "y">>)

device_step(st, text) ==
    LET s1 == phone_check(st, text, <<"i", "p", "h", "o", "n", "e">>, <<"A", "p", "p", "l", "e">>, <<"i", "P", "h", "o", "n", "e">>)
        s2 == phone_check(s1, text, <<"p", "i", "x", "e", "l">>, <<"G", "o", "o", "g", "l", "e">>, <<"P", "i", "x", "e", "l">>)
        s3 == phone_check(s2, text, <<"g", "a", "l", "a", "x", "y">>, <<"S", "a", "m", "s", "u", "n", "g">>, <<"G", "a", "l", "a", "x", "y">>)
        s4 == camera_check(s3, text, <<"n", "i", "k", "o", "n">>, <<"N", "i", "k", "o", "n">>)
        s5 == camera_check(s4, text, <<"c", "a", "n", "o", "n">>, <<"C", "a", "n", "o", "n">>)
    IN  camera_check(s5, text, <<"s", "o", "n", "y">>, <<"S", "o", "n", "y">>)

----------------------------------------------------------------------------
(* Step 5 (lines 248-265): the search payload                               *)

BoolKeys == {"isArchived", "isFavorite", "isMotion"}

immich_body(st) ==
    [city |-> st.city, country |-> st.country,
     createdAfter |-> st.createdAfter, createdBefore |-> st.createdBefore,
     takenAfter |-> st.takenAfter, takenBefore |-> st.takenBefore,
     isArchived |-> st.isArchived, isFavorite |-> st.isFavorite,
     isMotion |-> st.isMotion,
     make |-> st.make, model |-> st.model, query |-> st.remainingQuery]

(* v not in (None, "", False, []) for the value v of key k: the flags are   *)
(* booleans, every other value is None or a string                          *)
Kept(k, v) == IF k \in BoolKeys THEN v # FALSE ELSE v # None /\ v # <<>>

filter_body(body) ==
    [k \in {k \in DOMAIN body : Kept(k, body[k])} |-> body[k]]

----------------------------------------------------------------------------
(* Inputs                                                                   *)

MaxWords == 3
MaxDeviceWords == 3
MaxNoise == 1
MaxSpans == 3

(* all sequences over S of length at most n *)
RECURSIVE SeqsUpTo(_, _)
SeqsUpTo(S, n) ==
    IF n = 0 THEN {<<>>}
    ELSE LET shorter == SeqsUpTo(S, n - 1)
         IN  shorter \cup { Append(q, x) : q \in shorter, x \in S }

(* every piece prefixed by a space *)
RECURSIVE SpaceBefore(_)
SpaceBefore(words) ==
    IF words = <<>> THEN <<>> ELSE <<" ">> \o Head(words) \o SpaceBefore(Tail(words))

WithQuery(text) == [has_query |-> TRUE, query |-> text]
NoQuery == [has_query |-> FALSE, query |-> <<>>]

(* flag and year words, in mixed case *)
Vocab ==
    { <<"A", "r", "c", "h", "i", "v", "e", "d">>, <<"u", "n", "a", "r", "c", "h", "i", "v", "e", "d">>, <<"f", "a", "v", "o", "u", "r", "i", "t", "e">>, <<"F", "a", "v", "o", "r", "i", "t", "e">>, <<"m", "o", "t", "i", "o", "n">>,
      <<"t", "a", "k", "e", "n">>, <<"i", "n">>, <<"2", "0", "2", "2">>, <<"0", "0", "0", "0">> }
Requests == {NoQuery} \cup { WithQuery(JoinSp(ws)) : ws \in SeqsUpTo(Vocab, MaxWords) }

(* device words *)
DeviceVocab ==
    { <<"i", "P", "h", "o", "n", "e">>, <<"p", "i", "x", "e", "l">>, <<"g", "a", "l", "a", "x", "y">>, <<"n", "i", "k", "o", "n">>, <<"c", "a", "n", "o", "n">>, <<"s", "o", "n", "y">>,
      <<"1", "5">>, <<"p", "r", "o">>, <<"p", "i", "x", "e", "l", "s">> }
DeviceRequests == { WithQuery(JoinSp(ws)) : ws \in SeqsUpTo(DeviceVocab, MaxDeviceWords) }

(* range phrases: head, opening word, leading phrase, joining word,         *)
(* trailing phrase, trailing noise                                          *)
Heads == { <<"p", "h", "o", "t", "o", "s">>, <<"g", "o", " ", "t", "o", " ", "x">> }
Openers == { <<" ", "f", "r", "o", "m", " ">>, <<" ", "b", "e", "t", "w", "e", "e", "n", " ">>, <<"f", "r", "o", "m", " ">> }
Leads == { <<"j", "a", "n">>, <<"d", "e", "c", "e", "m", "b", "e", "r">>, <<"j", "a", "n", " ", "5">>, <<"d", "e", "c", "e", "m", "b", "e", "r", " ", "2", "0", "2", "4">>, <<"x", "y", "z">> }
Joiners == { <<" ", "t", "o", " ">>, <<" ", "t", "h", "r", "o", "u", "g", "h", " ">>, <<" ", "a", "n", "d", " ">>, <<" ">> }
Trails == { <<"m", "a", "r", "c", "h", " ", "2", "0", "2", "4">>, <<"f", "e", "b", "r", "u", "a", "r", "y", " ", "2", "0", "2", "4">>, <<"j", "u", "l", "y", " ", "2", "0", "2", "3", " ", "1", "4">>, <<"m", "a", "r", "c", "h", " ", "1", "0", " ", "2", "0", "2", "4">>,
            <<"f", "e", "b", " ", "2", "0", "2", "3">>, <<"j", "u", "n", "e", " ", "2", "0", "2", "4">>, <<"x", "y", "z">>, <<"i", "n", " ", "2", "0", "2", "2">>, <<"o", "n">> }
NoiseWords == { <<"i", "p", "h", "o", "n", "e">>, <<"x", "y", "z">> }
RangeRequests ==
    { WithQuery(h \o o \o l \o j \o t \o SpaceBefore(n)) :
        h \in Heads, o \in Openers, l \in Leads, j \in Joiners, t \in Trails,
        n \in SeqsUpTo(NoiseWords, MaxNoise) }

(* entity spans *)
Span(text, label) == [text |-> text, label |-> label]
SpanPool ==
    { Span(<<"A", "u", "s", "t", "i", "n", " ", "T", "e", "x", "a", "s">>, "GPE"), Span(<<"A", "u", "s", "t", "i", "n", ",", " ", "T", "e", "x", "a", "s">>, "GPE"),
      Span(<<"P", "a", "r", "i", "s", ",", " ", "F", "r", "a", "n", "c", "e">>, "GPE"), Span(<<"T", "e", "x", "a", "s">>, "LOC"),
      Span(<<"C", "a", "n", "a", "d", "a">>, "GPE"), Span(<<"D", "a", "l", "l", "a", "s">>, "GPE"),
      Span(<<"G", "e", "o", "r", "g", "i", "a">>, "GPE"), Span(<<"C", "a", "l", "i", "f", "o", "r", "n", "i", "a", ",", " ", "C", "a", "n", "a", "d", "a">>, "LOC"),
      Span(<<"B", "o", "b">>, "PERSON") }
FewEnts == { <<>>, <<Span(<<"A", "u", "s", "t", "i", "n", " ", "T", "e", "x", "a", "s">>, "GPE")>> }
LocRequests == { WithQuery(<<"p", "h", "o", "t", "o", "s">>), WithQuery(<<"A", "u", "s", "t", "i", "n", " ", "T", "e", "x", "a", "s", " ", "i", "n", " ", "2", "0", "2", "2">>) }

Clocks == { [year |-> 2026, month |-> 11] }

----------------------------------------------------------------------------
(* The handler                                                              *)

(* lines 49-63 *)
NewStructured(text) ==
    [city |-> None, state |-> None, country |-> None,
     createdAfter |-> None, createdBefore |-> None,
     takenAfter |-> None, takenBefore |-> None,
     isArchived |-> FALSE, isFavorite |-> FALSE, isMotion |-> FALSE,
     make |-> None, model |-> None, remainingQuery |-> text]

NoDateResult == DateResult("none", FALSE, None, None, None, None, None, NoDate, None)

InitWith(reqs, spans) ==
    /\ request \in reqs
    /\ ents \in spans
    /\ now \in Clocks
    /\ skip_tokens \in BOOLEAN
    /\ pc = "begin"
    /\ outcome = "running"
    /\ user_text = <<>>
    /\ lowered_text = <<>>
    /\ structured = NewStructured(<<>>)
    /\ date_res = NoDateResult
    /\ ent_idx = 1
    /\ payload = <<>>

Init == InitWith(Requests, FewEnts)
InitDevice == InitWith(DeviceRequests, FewEnts)
InitRange == InitWith(RangeRequests, FewEnts)
InitLoc == InitWith(LocRequests, SeqsUpTo(SpanPool, MaxSpans))

(* data.get("query", "") of line 45 *)
get_query(data) == IF data.has_query THEN data.query ELSE <<>>

(* lines 44-63 *)
Begin ==
    /\ pc = "begin"
    /\ user_text' = get_query(request)
    /\ lowered_text' = Lower(get_query(request))
    /\ structured' = NewStructured(get_query(request))
    /\ pc' = "flags"
    /\ UNCHANGED <<request, ents, now, skip_tokens, outcome, date_res, ent_idx, payload>>

(* lines 99-104 *)
flags_step(st, text) ==
    LET s1 == IF flag_isArchived(text) THEN [st EXCEPT !.isArchived = TRUE] ELSE st
        s2 == IF flag_isFavorite(text) THEN [s1 EXCEPT !.isFavorite = TRUE] ELSE s1
    IN  IF flag_isMotion(text) THEN [s2 EXCEPT !.isMotion = TRUE] ELSE s2

Flags ==
    /\ pc = "flags"
    /\ structured' = flags_step(structured, lowered_text)
    /\ pc' = "dates"
    /\ UNCHANGED <<request, ents, now, skip_tokens, outcome, user_text, lowered_text,
                   date_res, ent_idx, payload>>

(* lines 111-152; an exception ends the request *)
Dates ==
    /\ pc = "dates"
    /\ \E r \in date_step(lowered_text) :
        /\ date_res' = r
        /\ IF r.error
           THEN /\ outcome' = "error"
                /\ pc' = "done"
                /\ UNCHANGED structured
           ELSE /\ outcome' = outcome
                /\ pc' = "location"
                /\ structured' =
                      IF r.takenAfter # None
                      THEN [structured EXCEPT !.takenAfter = r.takenAfter,
                                              !.takenBefore = r.takenBefore]
                      ELSE structured
    /\ UNCHANGED <<request, ents, now, skip_tokens, user_text, lowered_text, ent_idx, payload>>

(* lines 161-206: one turn of the loop over doc.ents, or its end *)
Location ==
    /\ pc = "location"
    /\ IF ent_idx <= Len(ents)
       THEN /\ structured' = process_ent(structured, ents[ent_idx])
            /\ ent_idx' = ent_idx + 1
            /\ pc' = pc
       ELSE /\ pc' = "device"
            /\ UNCHANGED <<structured, ent_idx>>
    /\ UNCHANGED <<request, ents, now, skip_tokens, outcome, user_text, lowered_text,
                   date_res, payload>>

(* lines 211-244 *)
Device ==
    /\ pc = "device"
    /\ structured' = device_step(structured, lowered_text)
    /\ pc' = "assemble"
    /\ UNCHANGED <<request, ents, now, skip_tokens, outcome, user_text, lowered_text,
                   date_res, ent_idx, payload>>

(* lines 248-278 *)
Assemble ==
    /\ pc = "assemble"
    /\ payload' = filter_body(immich_body(structured))
    /\ outcome' = "ok"
    /\ pc' = "done"
    /\ UNCHANGED <<request, ents, now, skip_tokens, user_text, lowered_text, structured,
                   date_res, ent_idx>>

Next == Begin \/ Flags \/ Dates \/ Location \/ Device \/ Assemble

Spec == Init /\ [][Next]_vars
SpecDevice == InitDevice /\ [][Next]_vars
SpecRange == InitRange /\ [][Next]_vars
SpecLoc == InitLoc /\ [][Next]_vars

----------------------------------------------------------------------------
(* Properties                                                               *)

AfterDates == {"location", "device", "assemble", "done"}
Completed == pc = "done" /\ outcome = "ok"
Triggered == explicit_trigger(lowered_text)
InText(word) == Contains(Lower(user_text), word)

(* a date-only string "Y-MM-DD" as a number that orders like the calendar *)
DateKey(date) ==
    LET p == SplitSep(date, <<"-">>)
    IN  ToInt(p[1]) * 10000 + ToInt(p[2]) * 100 + ToInt(p[3])

(* C1: a date phrase that fails to parse is never fatal: every request     *)
(* whose text triggers the explicit-range pattern completes normally, and   *)
(* a date field left unset is absent from its payload.                      *)
C1_ParseFailureNotFatal ==
    (pc = "done" /\ Triggered) =>
        /\ outcome = "ok"
        /\ structured.takenAfter = None => "takenAfter" \notin DOMAIN payload
        /\ structured.takenBefore = None => "takenBefore" \notin DOMAIN payload

(* C2: the payload always has the key "query" holding the original input   *)
(* text and no key whose value is None, "", False or empty; with every      *)
(* other field unset it has exactly the one key "query".                    *)
AllOthersUnset ==
    /\ \A k \in {"city", "country", "createdAfter", "createdBefore", "takenAfter",
                 "takenBefore", "make", "model"} : structured[k] = None
    /\ \A k \in BoolKeys : structured[k] = FALSE
C2_QueryAlwaysPresent ==
    Completed =>
        /\ "query" \in DOMAIN payload
        /\ payload["query"] = get_query(request)
        /\ \A k \in DOMAIN payload \ BoolKeys : payload[k] # None /\ payload[k] # <<>>
        /\ \A k \in DOMAIN payload \cap BoolKeys : payload[k] # FALSE
        /\ AllOthersUnset => DOMAIN payload = {"query"}

(* C3: after all spans are processed, a state identified by a place-like   *)
(* span (with or without a comma) never coexists with an unset country.     *)
C3_StateImpliesCountry ==
    (pc \in {"device", "assemble", "done"} /\ structured.state # None)
        => structured.country # None

(* C4: location fields are first-writer-wins: once city, state or country  *)
(* has a non-null value, no later step changes it.                          *)
C4_FirstWriterWins ==
    [][\A f \in {"city", "state", "country"} :
          structured[f] # None => structured'[f] = structured[f]]_vars

(* C4 witness: two spans that both name a city were processed, and the     *)
(* city is the first span's.                                               *)
C4_Witness ==
    /\ pc = "location" /\ ent_idx = 3
    /\ ents[1] = Span(<<"D", "a", "l", "l", "a", "s">>, "GPE")
    /\ ents[2] = Span(<<"P", "a", "r", "i", "s", ",", " ", "F", "r", "a", "n", "c", "e">>, "GPE")
    /\ structured.city = <<"D", "a", "l", "l", "a", "s">>
    /\ structured.country = <<"F", "r", "a", "n", "c", "e">>

(* C5: at most one date strategy applies, in fixed priority: when the       *)
(* explicit-range trigger holds the bare-year pattern is never applied,     *)
(* even if the explicit strategy sets no date; the bare-year pattern sets   *)
(* the dates only when the trigger does not hold; when neither matches the  *)
(* dates stay unset.                                                        *)
C5_OneStrategy ==
    (pc \in AfterDates) =>
        /\ Triggered => date_res.strategy = "explicit"
        /\ (Triggered /\ date_res.candidate = None) =>
              structured.takenAfter = None /\ structured.takenBefore = None
        /\ date_res.strategy = "bare" =>
              ~Triggered /\ structured.takenAfter # None /\ structured.takenBefore # None
        /\ (~Triggered /\ re_search_year(lowered_text) = None) =>
              /\ date_res.strategy = "none"
              /\ structured.takenAfter = None /\ structured.takenBefore = None

(* C5 witness: a completed request whose text triggers the explicit-range   *)
(* pattern and also holds "in <year>", with no date set.                    *)
C5_Witness ==
    /\ Completed /\ Triggered
    /\ re_search_year(lowered_text) # None
    /\ structured.takenAfter = None /\ structured.takenBefore = None

(* C6: for a text that does not trigger the explicit-range pattern and in  *)
(* which the regular expression finds "in <year>" with the four digits Y,   *)
(* the request completes with takenAfter = "Y-01-01" and takenBefore =      *)
(* "Y-12-31".                                                               *)
C6_BareYear ==
    (pc = "done" /\ ~Triggered /\ re_search_year(lowered_text) # None) =>
        /\ outcome = "ok"
        /\ structured.takenAfter = re_search_year(lowered_text) \o <<"-", "0", "1", "-", "0", "1">>
        /\ structured.takenBefore = re_search_year(lowered_text) \o <<"-", "1", "2", "-", "3", "1">>

(* C7: whenever the explicit-range strategy computes an end date and the    *)
(* anchor parsed to year y and month m, takenBefore is the last calendar    *)
(* day of month m of year y (29 February exactly in leap years), whatever   *)
(* day number the trailing phrase holds; only when the anchor failed to     *)
(* parse is the end date the Date Normalizer's for the trailing phrase.     *)
DaysInMonth(y, m) ==
    CASE m \in {1, 3, 5, 7, 8, 10, 12} -> 31
      [] m \in {4, 6, 9, 11} -> 30
      [] m = 2 /\ y % 400 = 0 -> 29
      [] m = 2 /\ y % 400 # 0 /\ y % 100 = 0 -> 28
      [] m = 2 /\ y % 100 # 0 /\ y % 4 = 0 -> 29
      [] OTHER -> 28
RECURSIVE SkipToken(_)
SkipToken(s) == IF s = <<>> \/ Head(s) \in Whitespace THEN s ELSE SkipToken(Tail(s))
ModelFor(keyword, brand) ==
    LET text == Lower(user_text)
        rest == SplitWs(SkipToken(SubSeq(text, Find(text, keyword), Len(text))))
    IN  IF rest # <<>> /\ IsDigit(rest[1]) THEN brand \o <<" ">> \o rest[1] ELSE brand
ExpectedMake ==
    IF InText(<<"s", "o", "n", "y">>) THEN <<"S", "o", "n", "y">>
    ELSE IF InText(<<"c", "a", "n", "o", "n">>) THEN <<"C", "a", "n", "o", "n">>
    ELSE IF InText(<<"n", "i", "k", "o", "n">>) THEN <<"N", "i", "k", "o", "n">>
    ELSE IF InText(<<"g", "a", "l", "a", "x", "y">>) THEN <<"S", "a", "m", "s", "u", "n", "g">>
    ELSE IF InText(<<"p", "i", "x", "e", "l">>) THEN <<"G", "o", "o", "g", "l", "e">>
    ELSE IF InText(<<"i", "p", "h", "o", "n", "e">>) THEN <<"A", "p", "p", "l", "e">>
    ELSE None
ExpectedModel ==
    IF InText(<<"g", "a", "l", "a", "x", "y">>) THEN ModelFor(<<"g", "a", "l", "a", "x", "y">>, <<"G", "a", "l", "a", "x", "y">>)
    ELSE IF InText(<<"p", "i", "x", "e", "l">>) THEN ModelFor(<<"p", "i", "x", "e", "l">>, <<"P", "i", "x", "e", "l">>)
    ELSE IF InText(<<"i", "p", "h", "o", "n", "e">>) THEN ModelFor(<<"i", "p", "h", "o", "n", "e">>, <<"i", "P", "h", "o", "n", "e">>)
    ELSE None
C8_DeviceLastWriterWins ==
    (pc \in {"assemble", "done"} /\ outcome # "error") =>
        /\ structured.make = ExpectedMake
        /\ structured.model = ExpectedModel

(* C8 witness: a completed request naming iphone and then pixel with a      *)
(* number: the later check decides both fields.                             *)
C8_Witness ==
    /\ Completed
    /\ InText(<<"i", "p", "h", "o", "n", "e">>) /\ InText(<<"p", "i", "x", "e", "l", " ", "1", "5">>)
    /\ structured.make = <<"G", "o", "o", "g", "l", "e">> /\ structured.model = <<"P", "i", "x", "e", "l", " ", "1", "5">>

(* C9: isArchived is true iff the lower-cased text contains "archived",     *)
(* isFavorite iff it contains "favorite" or "favourite", isMotion iff it    *)
(* contains "motion", whatever the other steps do; a false flag is absent   *)
(* from the payload.                                                        *)
C9_LexicalFlags ==
    /\ (pc \notin {"begin", "flags"}) =>
          /\ structured.isArchived = InText(<<"a", "r", "c", "h", "i", "v", "e", "d">>)
          /\ structured.isFavorite = (InText(<<"f", "a", "v", "o", "r", "i", "t", "e">>) \/ InText(<<"f", "a", "v", "o", "u", "r", "i", "t", "e">>))
          /\ structured.isMotion = InText(<<"m", "o", "t", "i", "o", "n">>)
    /\ Completed =>
          \A k \in BoolKeys : IF structured[k] THEN k \in DOMAIN payload /\ payload[k] = TRUE
                              ELSE k \notin DOMAIN payload

(* C9 witness: a completed request with "Archived" and "favourite" in the   *)
(* text and no "motion".                                                    *)
C9_Witness ==
    /\ Completed
    /\ Contains(user_text, <<"A", "r", "c", "h", "i", "v", "e", "d">>) /\ Contains(user_text, <<"f", "a", "v", "o", "u", "r", "i", "t", "e">>)
    /\ DOMAIN payload \cap BoolKeys = {"isArchived", "isFavorite"}

(* C10 as claimed: in every completed request takenAfter and takenBefore    *)
(* are both set or both unset, and when set takenAfter <= takenBefore.      *)
C10_WellOrdered ==
    Completed =>
        /\ (structured.takenAfter = None) = (structured.takenBefore = None)
        /\ structured.takenAfter # None =>
              DateKey(structured.takenAfter) <= DateKey(structured.takenBefore)

(* C10 amended: in every completed request takenAfter and takenBefore are   *)
(* both set or both unset; when the bare-year strategy set them,            *)
(* takenAfter <= takenBefore.                                               *)
C10_BothOrNeither ==
    Completed =>
        /\ (structured.takenAfter = None) = (structured.takenBefore = None)
        /\ (date_res.strategy = "bare" /\ structured.takenAfter # None) =>
              DateKey(structured.takenAfter) <= DateKey(structured.takenBefore)

(* C10 witness: a completed request whose dates the bare-year strategy set. *)
C10_Witness ==
    /\ Completed /\ date_res.strategy = "bare"
    /\ structured.takenAfter = <<"2", "0", "2", "2", "-", "0", "1", "-", "0", "1">> /\ structured.takenBefore = <<"2", "0", "2", "2", "-", "1", "2", "-", "3", "1">>


====
